---- MODULE Spec2Model ----
(***************************************************************************)
(* result4js: the two-variant Result container of src/src/index.ts.        *)
(*                                                                         *)
(* The state is the set of Result instances built so far (objs), how each  *)
(* one was built (origin, a history variable) and the outcome of the most  *)
(* recent call (last): whether it returned or raised, the value carried,   *)
(* and every invocation of a caller-supplied mapper it made.               *)
(***************************************************************************)
EXTENDS Integers, Sequences, FiniteSets, TLC

VARIABLES objs, origin, last

vars == <<objs, origin, last>>

(***************************************************************************)
(* Bounds of the exploration.                                              *)
(***************************************************************************)
MaxInst == 2

(***************************************************************************)
(* JavaScript values.  Every value carries its `typeof` tag, so that a     *)
(* number, a string, undefined, a boolean, a function and an object are    *)
(* never equal to each other.                                              *)
(***************************************************************************)
Num(n) == [t |-> "number", n |-> n]

Str(s) == [t |-> "string", s |-> s]

Undefined == [t |-> "undefined"]

Bool(b) == [t |-> "boolean", b |-> b]

Fn(name) == [t |-> "function", f |-> name]

typeof(v) == v.t

Digits == <<"0", "1", "2", "3", "4", "5", "6", "7", "8", "9">>

RECURSIVE NumToStr(_)
NumToStr(n) == IF n < 10 THEN Digits[n + 1]
               ELSE NumToStr(n \div 10) \o Digits[(n % 10) + 1]

\* JsToString of the values that take part in `+`.
JsToString(v) ==
    CASE typeof(v) = "number" -> NumToStr(v.n)
      [] typeof(v) = "string" -> v.s
      [] typeof(v) = "undefined" -> "undefined"
      [] typeof(v) = "boolean" -> IF v.b THEN "true" ELSE "false"

\* The JavaScript `a + b` of sum: numeric addition of two numbers, string
\* concatenation as soon as one operand is a string.
JsAdd(a, b) ==
    IF typeof(a) = "number" /\ typeof(b) = "number"
    THEN Num(a.n + b.n)
    ELSE Str(JsToString(a) \o JsToString(b))

ErrMsg == "Both arguments are not numbers"

(***************************************************************************)
(* Inputs.                                                                 *)
(***************************************************************************)
\* payloads, defaults and fixed mappers
Values == {Num(0), Num(3), Str("bad input"), Undefined}

\* arguments of sum
SumArgs == {Num(1), Num(2), Str("a")}

\* callable mappers: msg => "wrapped: " + msg, (error) => new CustomError(error),
\* e => e, () => undefined, () => 0
MapperFns == {Fn("wrap"), Fn("custom"), Fn("ident"), Fn("undef"), Fn("zero")}

\* what a caller may pass to throwMap
Mappers == MapperFns \cup Values

\* The value a callable mapper returns for the argument it is given.
Call(mapper, arg) ==
    CASE mapper.f = "wrap" -> JsAdd(Str("wrapped: "), arg)
      [] mapper.f = "custom" -> [t |-> "object", cls |-> "CustomError", message |-> arg]
      [] mapper.f = "ident" -> arg
      [] mapper.f = "undef" -> Undefined
      [] mapper.f = "zero" -> Num(0)

(***************************************************************************)
(* Outcome of a method call: it returns or raises `value`, leaves the      *)
(* receiver as `this`, and made the mapper invocations `invoked`.          *)
(***************************************************************************)
Return(value, this, invoked) ==
    [kind |-> "return", value |-> value, this |-> this, invoked |-> invoked]

Raise(value, this, invoked) ==
    [kind |-> "raise", value |-> value, this |-> this, invoked |-> invoked]

Invocation(mapper, arg) == [f |-> mapper, arg |-> arg]

(***************************************************************************)
(* class Success                                                           *)
(***************************************************************************)
Success_new(data) == [_tag |-> "Success", data |-> data]

\* slip: raises the payload of a success
Success_throw_raising(this) == Raise(this.data, this, <<>>)

Success_throw(this) == Return(this.data, this, <<>>)

\* slip: evaluates a callable mapper although the instance is a success
Success_throwMap_eager(this, mapper) ==
    IF typeof(mapper) = "function"
    THEN Return(this.data, this, <<Invocation(mapper, this.data)>>)
    ELSE Return(this.data, this, <<>>)

Success_throwMap(this, mapper) == Return(this.data, this, <<>>)

Success_or(this, defaultValue) == Return(this.data, this, <<>>)

Success_isOk(this) == Return(Bool(TRUE), this, <<>>)

Success_isErr(this) == Return(Bool(FALSE), this, <<>>)

(***************************************************************************)
(* class Failure                                                           *)
(***************************************************************************)
Failure_new(data) == [_tag |-> "Failure", data |-> data]

\* slip: wraps the payload in an Error before raising it
Failure_throw_wrapped(this) ==
    Raise([t |-> "object", cls |-> "Error", message |-> this.data], this, <<>>)

Failure_throw(this) == Raise(this.data, this, <<>>)

\* slip: raises the mapper itself without the typeof test
Failure_throwMap_uncalled(this, mapper) == Raise(mapper, this, <<>>)

\* slip: a fixed mapper is dropped and the payload raised in its place
Failure_throwMap_payload(this, mapper) ==
    IF typeof(mapper) = "function"
    THEN Raise(Call(mapper, this.data), this, <<Invocation(mapper, this.data)>>)
    ELSE Raise(this.data, this, <<>>)

\* slip: `return mapper(this.data)` in place of `throw mapper(this.data)`
Failure_throwMap_returning(this, mapper) ==
    IF typeof(mapper) = "function"
    THEN Return(Call(mapper, this.data), this, <<Invocation(mapper, this.data)>>)
    ELSE Raise(mapper, this, <<>>)

Failure_throwMap(this, mapper) ==
    IF typeof(mapper) = "function"
    THEN Raise(Call(mapper, this.data), this, <<Invocation(mapper, this.data)>>)
    ELSE Raise(mapper, this, <<>>)

\* slip: returns the stored error instead of the default
Failure_or_payload(this, defaultValue) == Return(this.data, this, <<>>)

\* slip: stores the default in the instance before returning it
Failure_or_storing(this, defaultValue) ==
    Return(defaultValue, [this EXCEPT !.data = defaultValue], <<>>)

Failure_or(this, defaultValue) == Return(defaultValue, this, <<>>)

\* slip: copied from Success without flipping the answer
Failure_isOk_true(this) == Return(Bool(TRUE), this, <<>>)

Failure_isOk(this) == Return(Bool(FALSE), this, <<>>)

Failure_isErr(this) == Return(Bool(TRUE), this, <<>>)

(***************************************************************************)
(* The factories and the dispatch of a call on the receiver's class.       *)
(***************************************************************************)
Ok(data) == Success_new(data)

Err(error) == Failure_new(error)

throw(this) ==
    IF this._tag = "Success" THEN Success_throw(this) ELSE Failure_throw(this)

throwMap(this, mapper) ==
    IF this._tag = "Success" THEN Success_throwMap(this, mapper)
    ELSE Failure_throwMap(this, mapper)

or(this, defaultValue) ==
    IF this._tag = "Success" THEN Success_or(this, defaultValue)
    ELSE Failure_or(this, defaultValue)

isOk(this) ==
    IF this._tag = "Success" THEN Success_isOk(this) ELSE Failure_isOk(this)

isErr(this) ==
    IF this._tag = "Success" THEN Success_isErr(this) ELSE Failure_isErr(this)

\* The documented example function of index.ts.
sum(a, b) ==
    IF typeof(a) # "number" /\ typeof(b) # "number"
    THEN Err(Str(ErrMsg))
    ELSE Ok(JsAdd(a, b))

(***************************************************************************)
(* The state machine.                                                      *)
(***************************************************************************)
NoCall == [op |-> "none", self |-> 0, args |-> <<>>, kind |-> "return",
           value |-> Undefined, invoked |-> <<>>]

Init ==
    /\ objs = <<>>
    /\ origin = <<>>
    /\ last = NoCall

\* a factory call whose result the caller keeps
Construct(op, args, factory, arg, inst) ==
    /\ Len(objs) < MaxInst
    /\ objs' = Append(objs, inst)
    /\ origin' = Append(origin, [factory |-> factory, arg |-> arg, via |-> op, args |-> args])
    /\ last' = [op |-> op, self |-> Len(objs) + 1, args |-> args, kind |-> "return",
                value |-> inst, invoked |-> <<>>]

\* a method call on instance i with outcome out
Method(op, i, args, out) ==
    /\ objs' = [objs EXCEPT ![i] = out.this]
    /\ last' = [op |-> op, self |-> i, args |-> args, kind |-> out.kind,
                value |-> out.value, invoked |-> out.invoked]
    /\ UNCHANGED origin

DoOk == \E x \in Values : Construct("Ok", <<x>>, "Ok", x, Ok(x))

DoErr == \E e \in Values : Construct("Err", <<e>>, "Err", e, Err(e))

\* sum builds its result through exactly one of the two factories
DoSum ==
    \E a \in SumArgs, b \in SumArgs :
        LET r == sum(a, b)
        IN  Construct("sum", <<a, b>>,
                      IF r._tag = "Success" THEN "Ok" ELSE "Err", r.data, r)

CallThrow == \E i \in DOMAIN objs : Method("throw", i, <<>>, throw(objs[i]))

CallThrowMap ==
    \E i \in DOMAIN objs, m \in Mappers :
        Method("throwMap", i, <<m>>, throwMap(objs[i], m))

CallOr ==
    \E i \in DOMAIN objs, d \in Values : Method("or", i, <<d>>, or(objs[i], d))

CallIsOk == \E i \in DOMAIN objs : Method("isOk", i, <<>>, isOk(objs[i]))

CallIsErr == \E i \in DOMAIN objs : Method("isErr", i, <<>>, isErr(objs[i]))

Next ==
    \/ DoOk
    \/ DoErr
    \/ DoSum
    \/ CallThrow
    \/ CallThrowMap
    \/ CallOr
    \/ CallIsOk
    \/ CallIsErr

Spec == Init /\ [][Next]_vars

(***************************************************************************)
(* Properties.                                                             *)
(***************************************************************************)
\* the instance the last call was made on, and how it was built
Self == objs[last.self]

Built == origin[last.self]

OnMethod(op) == last.op = op /\ last.self \in DOMAIN objs

\* C1: Err(e).throw() raises exactly e, the stored payload itself, and
\* Ok(x).throw() returns x without raising.
C1_ThrowPassthrough ==
    OnMethod("throw") =>
        /\ Built.factory = "Err" => last.kind = "raise" /\ last.value = Built.arg
        /\ Built.factory = "Ok" => last.kind = "return" /\ last.value = Built.arg

C1_Witness ==
    /\ OnMethod("throw")
    /\ Built.via = "Err"
    /\ last.kind = "raise"
    /\ last.value = Str("bad input")

\* C2: Ok(x).or(d) returns x for every d, and Err(e).or(d) returns d unchanged.
C2_OrIdentity ==
    OnMethod("or") =>
        /\ last.kind = "return"
        /\ Built.factory = "Ok" => last.value = Built.arg
        /\ Built.factory = "Err" => last.value = last.args[1]

C2_Witness ==
    /\ OnMethod("or")
    /\ Built.via = "Err"
    /\ Built.arg = Str("bad input")
    /\ last.args = <<Num(0)>>
    /\ last.value = Num(0)

\* C3: at every point exactly one of isOk() and isErr() is true of an
\* instance: isOk() exactly for those built by Ok, isErr() exactly for those
\* built by Err.
C3_Exhaustive ==
    /\ \A i \in DOMAIN objs :
          LET ok == isOk(objs[i])
              er == isErr(objs[i])
          IN  /\ ok.kind = "return" /\ er.kind = "return"
              /\ ok.value = Bool(origin[i].factory = "Ok")
              /\ er.value = Bool(origin[i].factory = "Err")
              /\ ok.value # er.value
    /\ OnMethod("isOk") => last.value = Bool(Built.factory = "Ok")
    /\ OnMethod("isErr") => last.value = Bool(Built.factory = "Err")

C3_Witness ==
    /\ OnMethod("isOk")
    /\ Built.via = "Err"
    /\ last.value = Bool(FALSE)
    /\ \E i \in DOMAIN objs : origin[i].via = "Ok"

\* C4: Err(e).throwMap(f) with a callable f invokes f exactly once, with
\* argument e, and raises exactly the value f(e) returned.
C4_MappedThrowFunction ==
    (OnMethod("throwMap") /\ Built.factory = "Err" /\ typeof(last.args[1]) = "function") =>
        /\ last.invoked = <<Invocation(last.args[1], Built.arg)>>
        /\ last.kind = "raise"
        /\ last.value = Call(last.args[1], Built.arg)

C4_Witness ==
    /\ OnMethod("throwMap")
    /\ Built.via = "Err"
    /\ Built.arg = Str("bad input")
    /\ last.args = <<Fn("wrap")>>
    /\ last.kind = "raise"
    /\ last.value = Str("wrapped: bad input")

\* C5: Err(e).throwMap(m) with a fixed, non-callable m raises exactly m,
\* unchanged, and invokes nothing.
C5_MappedThrowFixed ==
    (OnMethod("throwMap") /\ Built.factory = "Err" /\ typeof(last.args[1]) # "function") =>
        /\ last.invoked = <<>>
        /\ last.kind = "raise"
        /\ last.value = last.args[1]

C5_Witness ==
    /\ OnMethod("throwMap")
    /\ Built.via = "Err"
    /\ Built.arg = Num(3)
    /\ last.args = <<Str("bad input")>>
    /\ last.kind = "raise"
    /\ last.value = Str("bad input")

\* C6: Ok(x).throwMap(mapper) returns x, does not raise, and never invokes
\* the mapper, callable or not.
C6_NoSpuriousInvocation ==
    (OnMethod("throwMap") /\ Built.factory = "Ok") =>
        /\ last.kind = "return"
        /\ last.value = Built.arg
        /\ last.invoked = <<>>

C6_Witness ==
    /\ OnMethod("throwMap")
    /\ Built.via = "Ok"
    /\ Built.arg = Num(3)
    /\ last.args = <<Fn("wrap")>>
    /\ last.value = Num(3)

\* C7: a raise happens only when throw() or throwMap() is called on a
\* failure-variant instance; construction, isOk, isErr, or, and throw or
\* throwMap on a success never raise.
C7_RaiseOnlyOnFailureThrow ==
    last.kind = "raise" =>
        /\ last.op \in {"throw", "throwMap"}
        /\ last.self \in DOMAIN objs
        /\ Built.factory = "Err"

C7_Witness ==
    /\ OnMethod("throw")
    /\ Built.via = "Ok"
    /\ last.kind = "return"
    /\ \E i \in DOMAIN objs : origin[i].factory = "Err"

\* C8: an instance is immutable: after any sequence of calls, raising ones
\* included, its variant is the one of the factory that built it and its
\* .data is exactly the value passed to that factory.
C8_Immutable ==
    \A i \in DOMAIN objs :
        /\ objs[i]._tag = (IF origin[i].factory = "Ok" THEN "Success" ELSE "Failure")
        /\ objs[i].data = origin[i].arg

C8_Witness ==
    /\ OnMethod("or")
    /\ Built.via = "Err"
    /\ last.args[1] # Built.arg
    /\ Self = Err(Built.arg)

\* C9: sum(a, b) is Ok(a+b) when both inputs are numbers and
\* Err("Both arguments are not numbers") whenever at least one is not;
\* throw() and or(0) on the result behave accordingly.
C9_SumScenario ==
    \A i \in DOMAIN objs :
        origin[i].via = "sum" =>
            LET a == origin[i].args[1]
                b == origin[i].args[2]
                bothNumbers == typeof(a) = "number" /\ typeof(b) = "number"
                expected == IF bothNumbers THEN Ok(Num(a.n + b.n)) ELSE Err(Str(ErrMsg))
                onIt(op) == OnMethod(op) /\ last.self = i
            IN  /\ objs[i] = expected
                /\ onIt("throw") =>
                      IF bothNumbers
                      THEN last.kind = "return" /\ last.value = expected.data
                      ELSE last.kind = "raise" /\ last.value = Str(ErrMsg)
                /\ onIt("or") =>
                      IF bothNumbers
                      THEN last.value = expected.data
                      ELSE last.value = last.args[1]

\* C10: on a failure-variant instance throw() and throwMap(mapper) never
\* return normally, whatever the mapper is or returns.
C10_FailureNeverReturns ==
    (last.op \in {"throw", "throwMap"} /\ last.self \in DOMAIN objs /\ Built.factory = "Err") =>
        last.kind = "raise"

C10_Witness ==
    /\ OnMethod("throwMap")
    /\ Built.via = "Err"
    /\ last.args = <<Fn("undef")>>
    /\ last.kind = "raise"
    /\ last.value = Undefined

====
